---------------------------- MODULE Spec2Model ----------------------------
(***************************************************************************)
(* A model of logu: the Drain clustering engine (src/src/drain.rs) and the *)
(* pipeline that feeds it (src/src/main.rs).                               *)
(*                                                                         *)
(* A line is a sequence of pieces; a piece is a word or a run of extra     *)
(* whitespace, and neighbouring pieces are separated by one blank.  A      *)
(* word is an atom: the only things the engine asks of a word are whether  *)
(* it equals another word and whether it has a numeric character.          *)
(*                                                                         *)
(* The prefix tree is a function from paths to cluster-id lists: a node is *)
(* the sequence of keys leading to it from the root (the root is <<>>, a   *)
(* token-count bucket is <<"3">>), and key_to_child_node of a node is the  *)
(* set of paths one key longer.                                            *)
(*                                                                         *)
(* The cluster store is the sequence of stored clusters, the most recently *)
(* used first, which is the order LruCache::iter yields.                   *)
(*                                                                         *)
(* A similarity is the fraction num/den kept exact.  The code computes it  *)
(* in f32; the quotient of two small integers and the literal threshold    *)
(* are both rounded to the nearest f32, so equal fractions stay equal and  *)
(* different ones, which differ by far more than one ulp, keep their       *)
(* order.                                                                  *)
(***************************************************************************)
EXTENDS Integers, Sequences, FiniteSets, TLC

VARIABLES
    id_to_cluster,      \* Drain.id_to_cluster, most recently used first
    cluster_counter,    \* Drain.cluster_counter
    root,               \* Drain.root, as a function from paths to cluster_ids
    max_node_depth,     \* Drain.max_node_depth
    sim_th,             \* Drain.sim_th, as [num, den]
    max_children,       \* Drain.max_children
    max_clusters,       \* Drain.max_clusters, 0 for None
    panicked,           \* an unwrap or an index of the engine failed
    n_train,            \* number of train calls made
    created,            \* ids of the clusters created, in creation order
    last,               \* what the last train call did
    logs,               \* examples/drain.rs: the lines the example trains
    main_pc,            \* main.rs: where the main flow is
    task_pc,            \* main.rs: where the spawned task (draining) is
    canceled,           \* the CancellationToken
    raw_mode,           \* terminal: raw mode is enabled
    mouse_capture,      \* terminal: mouse capture is enabled
    cursor_hidden,      \* terminal: the cursor is hidden
    stdin_lines,        \* the lines standard input holds
    stdin_end,          \* what follows them: "eof", "idle" or "error"
    read_pos,           \* lines the reader has handed out or lost
    ret,                \* the result of the last timed read
    trained,            \* the lines passed to drain.train, in order
    screen,             \* the clusters the last rendering step printed
    task_result,        \* the value the task returned
    exit_status,        \* the value main returned
    cluster_size_th     \* args.cluster_size_th

engine_vars == <<id_to_cluster, cluster_counter, root, max_node_depth, sim_th,
                 max_children, max_clusters, panicked, n_train, created, last>>

terminal_vars == <<raw_mode, mouse_capture, cursor_hidden>>

reader_vars == <<stdin_lines, stdin_end, read_pos, ret, trained>>

pipeline_vars == <<main_pc, task_pc, canceled, terminal_vars, reader_vars, screen,
                   task_result, exit_status, cluster_size_th>>

vars == <<engine_vars, logs, pipeline_vars>>

-----------------------------------------------------------------------------
(* Bounds of the model *)

MaxTrain == 3
MaxTokens == 3
MaxDepthCfg == 3
MaxChildrenCfg == 2
MaxClustersCfg == 2
MaxStdin == 2
TerminalRows == 2

-----------------------------------------------------------------------------
(* Words and lines *)

param_str == "<*>"

Whitespace == {" ", "\t"}

\* a terminal escape sequence, as a piece of a line
AnsiEscapes == {"ESC[0m"}

\* the lines of examples/drain.rs and of the test of train
ExampleLogs ==
    << <<"connected", "to", "10.0.0.1">>,
       <<"connected", "to", "10.0.0.2">>,
       <<"connected", "to", "10.0.0.3">>,
       <<"Hex", "number", "0xDEADBEAF">>,
       <<"Hex", "number", "0x10000">>,
       <<"user", "davidoh", "logged", "in">>,
       <<"user", "eranr", "logged", "in">> >>

\* the words with a numeric character
NumericWords == {"7", "10.0.0.1", "10.0.0.2", "10.0.0.3", "0xDEADBEAF", "0x10000"}

Words == {"a", "7"}

TokenSeqs == UNION {[1..n -> Words] : n \in 0..MaxTokens}

\* lines that carry the wildcard marker themselves
MarkerLines == {<<param_str>>, <<"a", param_str>>}

\* the short lines again, with blanks around them
PaddedLines == {<<" ">> \o t \o <<" ">> : t \in {s \in TokenSeqs : Len(s) <= 1}}

Lines == TokenSeqs \cup MarkerLines \cup PaddedLines

has_number(s) == s \in NumericWords

IsWord(p) == p \notin Whitespace

tokenize(log_message) == SelectSeq(log_message, IsWord)

Digits == <<"0", "1", "2", "3", "4", "5", "6", "7", "8", "9">>

\* usize::to_string, for the token counts of the model (all below ten)
to_string(n) == Digits[n + 1]

-----------------------------------------------------------------------------
(* LogCluster and the LruCache holding them *)

LogCluster(tokens, id, sz) ==
    [log_template_tokens |-> tokens, cluster_id |-> id, size |-> sz]

\* Option::None of a LogCluster (no cluster has id 0)
NoCluster == LogCluster(<<>>, 0, 0)

Unbounded == 0

Ids(cache) == {cache[i].cluster_id : i \in DOMAIN cache}

LruContains(cache, id) == id \in Ids(cache)

LruIndex(cache, id) == CHOOSE i \in DOMAIN cache : cache[i].cluster_id = id

LruPeek(cache, id) ==
    IF LruContains(cache, id) THEN cache[LruIndex(cache, id)] ELSE NoCluster

Without(cache, i) == SubSeq(cache, 1, i - 1) \o SubSeq(cache, i + 1, Len(cache))

\* LruTouch as peek would leave the cache: a lookup that refreshes nothing
LruTouch_none(cache, id) == cache

\* the cache after get(id): a hit becomes the most recently used entry
LruTouch(cache, id) ==
    IF LruContains(cache, id)
    THEN <<cache[LruIndex(cache, id)]>> \o Without(cache, LruIndex(cache, id))
    ELSE cache

\* the cache after put(c.cluster_id, c) with capacity cap
LruPut(cache, cap, c) ==
    IF LruContains(cache, c.cluster_id)
    THEN <<c>> \o Without(cache, LruIndex(cache, c.cluster_id))
    ELSE IF cap # Unbounded /\ Len(cache) >= cap
    THEN <<c>> \o SubSeq(cache, 1, Len(cache) - 1)
    ELSE <<c>> \o cache

clusters == [i \in DOMAIN id_to_cluster |-> id_to_cluster[i]]

-----------------------------------------------------------------------------
(* Similarity *)

Sim(n, d) == [num |-> n, den |-> d]

\* f32 comparisons of two similarities with positive denominators
SimGT(a, b) == a.num * b.den > b.num * a.den
SimEQ(a, b) == a.num * b.den = b.num * a.den
SimGE(a, b) == a.num * b.den >= b.num * a.den

ZipLen(seq1, seq2) == IF Len(seq1) < Len(seq2) THEN Len(seq1) ELSE Len(seq2)

get_seq_distance(seq1, seq2, include_params) ==
    LET zip == 1..ZipLen(seq1, seq2)
        param_count == Cardinality({i \in zip : seq1[i] = param_str})
        sim_tokens == Cardinality({i \in zip : seq1[i] # param_str /\ seq1[i] = seq2[i]})
    IN  [sim |-> Sim(IF include_params THEN sim_tokens + param_count ELSE sim_tokens,
                     Len(seq1)),
         param_count |-> param_count]

\* create_template pushing nothing where the two differ
create_template_skip(seq1, seq2) ==
    LET keep(i) == IF seq1[i] = seq2[i] THEN <<seq1[i]>> ELSE <<>>
        F[i \in 0..ZipLen(seq1, seq2)] == IF i = 0 THEN <<>> ELSE F[i - 1] \o keep(i)
    IN  F[ZipLen(seq1, seq2)]

\* create_template keeping the line's token where the two differ
create_template_latest(seq1, seq2) == [i \in 1..ZipLen(seq1, seq2) |-> seq1[i]]

create_template(seq1, seq2) ==
    [i \in 1..ZipLen(seq1, seq2) |-> IF seq1[i] = seq2[i] THEN seq1[i] ELSE param_str]

-----------------------------------------------------------------------------
(* The prefix tree *)

EmptyTree == [p \in {<<>>} |-> <<>>]

contains_key(tree, node, key) == Append(node, key) \in DOMAIN tree

ChildKeys(tree, node) ==
    {p[Len(p)] : p \in {q \in DOMAIN tree :
                          Len(q) = Len(node) + 1 /\ SubSeq(q, 1, Len(node)) = node}}

\* key_to_child_node.insert(key, Node::default()) at node
InsertChild(tree, node, key) == (Append(node, key) :> <<>>) @@ tree

-----------------------------------------------------------------------------
(* Drain::fast_match *)

\* LruCache::get: the value, and the cache with the hit moved to the front
LruGet(cache, id) == [value |-> LruPeek(cache, id), cache |-> LruTouch(cache, id)]

FastMatchStart(cache) ==
    [cache |-> cache, max_sim |-> Sim(-1, 1), max_param_count |-> -1,
     max_cluster |-> NoCluster, lookups |-> <<>>]

RECURSIVE fast_match_loop(_, _, _, _, _)
fast_match_loop(cluster_ids, i, tokens, include_params, acc) ==
    IF i > Len(cluster_ids) THEN acc
    ELSE
      LET got == LruGet(acc.cache, cluster_ids[i])
          d == get_seq_distance(tokens, got.value.log_template_tokens, include_params)
          seen == [acc EXCEPT !.cache = got.cache,
                              !.lookups = Append(acc.lookups, cluster_ids[i])]
      IN  fast_match_loop(cluster_ids, i + 1, tokens, include_params,
            IF got.value = NoCluster THEN seen
            ELSE IF SimGT(d.sim, acc.max_sim)
                    \/ (SimEQ(d.sim, acc.max_sim) /\ d.param_count > acc.max_param_count)
            THEN [seen EXCEPT !.max_sim = d.sim,
                              !.max_param_count = d.param_count,
                              !.max_cluster = got.value]
            ELSE seen)

\* fast_match returning the best candidate whatever the threshold
fast_match_no_threshold(cache, cluster_ids, tokens, th, include_params) ==
    LET acc == fast_match_loop(cluster_ids, 1, tokens, include_params, FastMatchStart(cache))
    IN  [cluster |-> acc.max_cluster,
         cache |-> acc.cache,
         lookups |-> acc.lookups]

fast_match(cache, cluster_ids, tokens, th, include_params) ==
    LET acc == fast_match_loop(cluster_ids, 1, tokens, include_params, FastMatchStart(cache))
    IN  [cluster |-> IF SimGE(acc.max_sim, th) THEN acc.max_cluster ELSE NoCluster,
         cache |-> acc.cache,
         lookups |-> acc.lookups]

-----------------------------------------------------------------------------
(* Drain::tree_search *)

\* search_loop taking the wildcard child before the child of the token
RECURSIVE search_loop_wildcard_first(_, _, _, _, _)
search_loop_wildcard_first(tree, tokens, i, cur_node, cur_node_depth) ==
    IF i > Len(tokens) THEN [ok |-> TRUE, node |-> cur_node]
    ELSE IF cur_node_depth = max_node_depth THEN [ok |-> TRUE, node |-> cur_node]
    ELSE IF cur_node_depth = Len(tokens) THEN [ok |-> TRUE, node |-> cur_node]
    ELSE IF contains_key(tree, cur_node, param_str)
    THEN search_loop_wildcard_first(tree, tokens, i + 1, Append(cur_node, param_str),
                                    cur_node_depth + 1)
    ELSE IF contains_key(tree, cur_node, tokens[i])
    THEN search_loop_wildcard_first(tree, tokens, i + 1, Append(cur_node, tokens[i]),
                                    cur_node_depth + 1)
    ELSE [ok |-> FALSE, node |-> cur_node]

\* the for loop of tree_search: the node it stops at, or ok = FALSE when a
\* level has neither the token nor the wildcard as a child
RECURSIVE search_loop(_, _, _, _, _)
search_loop(tree, tokens, i, cur_node, cur_node_depth) ==
    IF i > Len(tokens) THEN [ok |-> TRUE, node |-> cur_node]
    ELSE IF cur_node_depth = max_node_depth THEN [ok |-> TRUE, node |-> cur_node]
    ELSE IF cur_node_depth = Len(tokens) THEN [ok |-> TRUE, node |-> cur_node]
    ELSE IF contains_key(tree, cur_node, tokens[i])
    THEN search_loop(tree, tokens, i + 1, Append(cur_node, tokens[i]), cur_node_depth + 1)
    ELSE IF contains_key(tree, cur_node, param_str)
    THEN search_loop(tree, tokens, i + 1, Append(cur_node, param_str), cur_node_depth + 1)
    ELSE [ok |-> FALSE, node |-> cur_node]

SearchResult(cluster, cache, node, lookups, panic) ==
    [cluster |-> cluster, cache |-> cache, node |-> node, lookups |-> lookups,
     panic |-> panic]

tree_search(tree, cache, tokens, th, include_params) ==
    LET token_count == Len(tokens)
        bucket == <<to_string(token_count)>>
    IN  IF ~contains_key(tree, <<>>, to_string(token_count))
        THEN SearchResult(NoCluster, cache, <<>>, <<>>, FALSE)
        ELSE IF token_count = 0
        THEN IF Len(tree[bucket]) = 0
             THEN SearchResult(NoCluster, cache, bucket, <<>>, TRUE)
             ELSE LET got == LruGet(cache, tree[bucket][1])
                  IN  SearchResult(got.value, got.cache, bucket, <<tree[bucket][1]>>, FALSE)
        ELSE LET stop == search_loop(tree, tokens, 1, bucket, 1)
                 m == fast_match(cache, tree[stop.node], tokens, th, include_params)
             IN  IF ~stop.ok
                 THEN SearchResult(NoCluster, cache, stop.node, <<>>, FALSE)
                 ELSE SearchResult(m.cluster, m.cache, stop.node, m.lookups, FALSE)

-----------------------------------------------------------------------------
(* Drain::add_seq_to_prefix_tree *)

\* at_leaf without the test of the maximum depth
at_leaf_no_depth(current_depth, token_count) == current_depth >= token_count

\* the test that makes the current node the leaf
at_leaf(current_depth, token_count) ==
    current_depth >= max_node_depth \/ current_depth >= token_count

\* rebuild_cluster_ids dropping the ids the leaf had
rebuild_cluster_ids_new_only(cluster_ids, cache, cluster_id) == <<cluster_id>>

\* the leaf's new list: the ids still in the store, then the new id
rebuild_cluster_ids(cluster_ids, cache, cluster_id) ==
    SelectSeq(cluster_ids, LAMBDA id : LruContains(cache, id)) \o <<cluster_id>>

Step(key, insert, panic) == [key |-> key, insert |-> insert, panic |-> panic]

\* next_child never reserving the last slot of a node for the wildcard child
next_child_no_escape(tree, cur_node, token) ==
    LET len == Cardinality(ChildKeys(tree, cur_node))
        has_param == contains_key(tree, cur_node, param_str)
    IN  IF ~contains_key(tree, cur_node, token)
        THEN IF ~has_number(token)
             THEN IF has_param
                  THEN IF len < max_children
                       THEN Step(token, TRUE, FALSE)
                       ELSE Step(param_str, FALSE, FALSE)
                  ELSE IF len + 1 < max_children
                       THEN Step(token, TRUE, FALSE)
                       ELSE Step(param_str, FALSE, TRUE)
             ELSE IF ~has_param
                  THEN Step(param_str, TRUE, FALSE)
                  ELSE Step(param_str, FALSE, FALSE)
        ELSE Step(token, FALSE, FALSE)

\* next_child letting a node that has the wildcard child grow one child too far
next_child_off_by_one(tree, cur_node, token) ==
    LET len == Cardinality(ChildKeys(tree, cur_node))
        has_param == contains_key(tree, cur_node, param_str)
    IN  IF ~contains_key(tree, cur_node, token)
        THEN IF ~has_number(token)
             THEN IF has_param
                  THEN IF len <= max_children
                       THEN Step(token, TRUE, FALSE)
                       ELSE Step(param_str, FALSE, FALSE)
                  ELSE IF len + 1 < max_children
                       THEN Step(token, TRUE, FALSE)
                       ELSE IF len + 1 = max_children
                       THEN Step(param_str, TRUE, FALSE)
                       ELSE Step(param_str, FALSE, TRUE)
             ELSE IF ~has_param
                  THEN Step(param_str, TRUE, FALSE)
                  ELSE Step(param_str, FALSE, FALSE)
        ELSE Step(token, FALSE, FALSE)

\* the child the walk moves to from cur_node on token: its key, whether it is
\* inserted first, and whether the unwrap of an absent wildcard child fails
next_child(tree, cur_node, token) ==
    LET len == Cardinality(ChildKeys(tree, cur_node))
        has_param == contains_key(tree, cur_node, param_str)
    IN  IF ~contains_key(tree, cur_node, token)
        THEN IF ~has_number(token)
             THEN IF has_param
                  THEN IF len < max_children
                       THEN Step(token, TRUE, FALSE)
                       ELSE Step(param_str, FALSE, FALSE)
                  ELSE IF len + 1 < max_children
                       THEN Step(token, TRUE, FALSE)
                       ELSE IF len + 1 = max_children
                       THEN Step(param_str, TRUE, FALSE)
                       ELSE Step(param_str, FALSE, TRUE)
             ELSE IF ~has_param
                  THEN Step(param_str, TRUE, FALSE)
                  ELSE Step(param_str, FALSE, FALSE)
        ELSE Step(token, FALSE, FALSE)

AddResult(tree, node, panic) == [tree |-> tree, node |-> node, panic |-> panic]

RECURSIVE add_loop(_, _, _, _, _, _)
add_loop(tree, cache, cluster, i, cur_node, current_depth) ==
    LET tokens == cluster.log_template_tokens
    IN  IF i > Len(tokens) THEN AddResult(tree, cur_node, FALSE)
        ELSE IF at_leaf(current_depth, Len(tokens))
        THEN AddResult([tree EXCEPT ![cur_node] =
                           rebuild_cluster_ids(tree[cur_node], cache, cluster.cluster_id)],
                       cur_node, FALSE)
        ELSE LET step == next_child(tree, cur_node, tokens[i])
             IN  IF step.panic THEN AddResult(tree, cur_node, TRUE)
                 ELSE add_loop(IF step.insert THEN InsertChild(tree, cur_node, step.key)
                               ELSE tree,
                               cache, cluster, i + 1, Append(cur_node, step.key),
                               current_depth + 1)

add_seq_to_prefix_tree(tree, cache, cluster) ==
    LET token_count == Len(cluster.log_template_tokens)
        token_count_str == to_string(token_count)
        bucket == <<token_count_str>>
        with_bucket == IF contains_key(tree, <<>>, token_count_str) THEN tree
                       ELSE InsertChild(tree, <<>>, token_count_str)
    IN  IF token_count = 0
        THEN AddResult([with_bucket EXCEPT ![bucket] = Append(@, cluster.cluster_id)],
                       bucket, FALSE)
        ELSE add_loop(with_bucket, cache, cluster, 1, bucket, 1)

-----------------------------------------------------------------------------
(* Drain::train *)

\* merge_cluster without the count of the line
merge_cluster_no_count(match_cluster, tokens) ==
    [match_cluster EXCEPT
        !.log_template_tokens = create_template(tokens, match_cluster.log_template_tokens)]

\* the matched cluster after the merge of the line into it
merge_cluster(match_cluster, tokens) ==
    [match_cluster EXCEPT
        !.log_template_tokens = create_template(tokens, match_cluster.log_template_tokens),
        !.size = match_cluster.size + 1]

\* new_cluster_id taken from the number of stored clusters
new_cluster_id_by_len == Len(id_to_cluster) + 1

\* the id of a cluster created now: the counter after its increment
new_cluster_id == cluster_counter + 1

\* what a train call did: the cluster it returns, the cluster tree_search gave
\* it, the tokens of the line, the ids looked up in the store (and those of
\* them the store no longer held), and the nodes search and insertion ended at
Outcome(kind, cluster, tokens, search, insert_node) ==
    [kind |-> kind, cluster |-> cluster, before |-> search.cluster, tokens |-> tokens,
     lookups |-> search.lookups,
     missed |-> {search.lookups[j] : j \in DOMAIN search.lookups} \ Ids(id_to_cluster),
     search_node |-> search.node, insert_node |-> insert_node]

NoOutcome ==
    [kind |-> "none", cluster |-> NoCluster, before |-> NoCluster, tokens |-> <<>>,
     lookups |-> <<>>, missed |-> {}, search_node |-> <<>>, insert_node |-> <<>>]

train(log_message) ==
    LET tokens == tokenize(log_message)
        found == tree_search(root, id_to_cluster, tokens, sim_th, FALSE)
        merged == merge_cluster(found.cluster, tokens)
        fresh == LogCluster(tokens, new_cluster_id, 1)
        stored == LruPut(found.cache, max_clusters, fresh)
        added == add_seq_to_prefix_tree(root, stored, fresh)
    IN  /\ n_train' = n_train + 1
        /\ UNCHANGED <<max_node_depth, sim_th, max_children, max_clusters>>
        /\ IF found.panic
           THEN /\ panicked' = TRUE
                /\ last' = Outcome("panic", NoCluster, tokens, found, <<>>)
                /\ UNCHANGED <<id_to_cluster, cluster_counter, root, created>>
           ELSE IF found.cluster # NoCluster
           THEN /\ id_to_cluster' = LruPut(found.cache, max_clusters, merged)
                /\ last' = Outcome("match", merged, tokens, found, <<>>)
                /\ UNCHANGED <<cluster_counter, root, created, panicked>>
           ELSE /\ cluster_counter' = new_cluster_id
                /\ id_to_cluster' = stored
                /\ root' = added.tree
                /\ panicked' = added.panic
                /\ created' = Append(created, fresh.cluster_id)
                /\ last' = Outcome(IF added.panic THEN "panic" ELSE "create",
                                   fresh, tokens, found, added.node)

-----------------------------------------------------------------------------
(* The engine under any sequence of train calls *)

Thresholds == {Sim(0, 1), Sim(4, 10), Sim(1, 1)}

\* a fresh engine with the given values of its configuration fields
DrainWith(clusters_cap, depth, th, children) ==
    /\ id_to_cluster = <<>>
    /\ cluster_counter = 0
    /\ root = EmptyTree
    /\ max_node_depth = depth
    /\ sim_th = th
    /\ max_children = children
    /\ max_clusters = clusters_cap
    /\ panicked = FALSE
    /\ n_train = 0
    /\ created = <<>>
    /\ last = NoOutcome

\* the pipeline, for the specifications that do not run it
NoPipeline ==
    /\ main_pc = "none"
    /\ task_pc = "none"
    /\ canceled = FALSE
    /\ raw_mode = FALSE
    /\ mouse_capture = FALSE
    /\ cursor_hidden = FALSE
    /\ stdin_lines = <<>>
    /\ stdin_end = "eof"
    /\ read_pos = 0
    /\ ret = "none"
    /\ trained = <<>>
    /\ screen = <<>>
    /\ task_result = "none"
    /\ exit_status = "none"
    /\ cluster_size_th = 0

Init ==
    /\ logs = <<>>
    /\ NoPipeline
    /\ \E clusters_cap \in {Unbounded} \cup 1..MaxClustersCfg,
       depth \in 1..MaxDepthCfg,
       th \in Thresholds,
       children \in 1..MaxChildrenCfg :
        DrainWith(clusters_cap, depth, th, children)

Train ==
    /\ ~panicked
    /\ n_train < MaxTrain
    /\ \E log_message \in Lines : train(log_message)
    /\ UNCHANGED <<logs, pipeline_vars>>

Next == Train

Spec == Init /\ [][Next]_vars

-----------------------------------------------------------------------------
(* examples/drain.rs and the test of train: a default engine trained on a list
   of lines, here any sub-list of the example's lines in their order *)

DrainDefault == DrainWith(Unbounded, 2, Sim(4, 10), 100)

RECURSIVE Pick(_, _, _)
Pick(s, mask, i) ==
    IF i > Len(s) THEN <<>>
    ELSE (IF i \in mask THEN <<s[i]>> ELSE <<>>) \o Pick(s, mask, i + 1)

ExampleInputs == {Pick(ExampleLogs, mask, 1) : mask \in SUBSET (1..Len(ExampleLogs))}

InitExample ==
    /\ logs \in ExampleInputs
    /\ NoPipeline
    /\ DrainDefault

TrainNextLog ==
    /\ ~panicked
    /\ n_train < Len(logs)
    /\ train(logs[n_train + 1])
    /\ UNCHANGED <<logs, pipeline_vars>>

NextExample == TrainNextLog

SpecExample == InitExample /\ [][NextExample]_vars

-----------------------------------------------------------------------------
(* Four-token lines under the default threshold and under 0.99: lines that
   share the first token, and with it the leaf of a default-depth tree, one
   line that carries the wildcard marker, and one line of another leaf *)

MatchLines ==
    {<<"u", x, y, z>> : x \in {"a", "b"}, y \in {"a", "b"}, z \in {"a", "b"}}
        \cup {<<"u", "a", "a", param_str>>, <<"v", "a", "a", "a">>}

MatchThresholds == {Sim(4, 10), Sim(99, 100)}

InitMatch ==
    /\ logs = <<>>
    /\ NoPipeline
    /\ \E clusters_cap \in {Unbounded, 1}, th \in MatchThresholds :
          DrainWith(clusters_cap, 2, th, 100)

TrainMatch ==
    /\ ~panicked
    /\ n_train < MaxTrain
    /\ \E log_message \in MatchLines : train(log_message)
    /\ UNCHANGED <<logs, pipeline_vars>>

NextMatch == TrainMatch

SpecMatch == InitMatch /\ [][NextMatch]_vars

-----------------------------------------------------------------------------
(* The engine under any sequence of train calls, followed by one more call on
   the line of the last of them *)

TrainAgain ==
    /\ ~panicked
    /\ n_train = MaxTrain
    /\ train(last.tokens)
    /\ UNCHANGED <<logs, pipeline_vars>>

NextRepeat == Train \/ TrainAgain

SpecRepeat == Init /\ [][NextRepeat]_vars

-----------------------------------------------------------------------------
(* main.rs: the main flow and the task it spawns *)

\* Drain::new accepts the configuration
ValidConfig(clusters_cap, depth, th, children) ==
    /\ clusters_cap >= 0
    /\ depth >= 1
    /\ children >= 1
    /\ SimGE(th, Sim(0, 1))
    /\ SimGE(Sim(1, 1), th)

\* line.replace(['\n', '\t'], " ") and strip_ansi_escapes::strip_str
escaped(line) ==
    SelectSeq([i \in DOMAIN line |-> IF line[i] = "\t" THEN " " ELSE line[i]],
              LAMBDA p : p \notin AnsiEscapes)

StdinLineSet == {<<"a">>, <<"a", "\t", "7">>, <<"ESC[0m", "a", "7">>}

StdinInputs == UNION {[1..n -> StdinLineSet] : n \in 0..MaxStdin}

InitMain ==
    /\ logs = <<>>
    /\ \E clusters_cap \in {Unbounded, 1}, children \in {0, 100} :
          DrainWith(clusters_cap, 2, Sim(4, 10), children)
    /\ cluster_size_th \in {0, 1}
    /\ stdin_lines \in StdinInputs
    /\ stdin_end \in {"eof", "idle", "error"}
    /\ main_pc = "enable_raw_mode"
    /\ task_pc = "unspawned"
    /\ canceled = FALSE
    /\ raw_mode = FALSE
    /\ mouse_capture = FALSE
    /\ cursor_hidden = FALSE
    /\ read_pos = 0
    /\ ret = "none"
    /\ trained = <<>>
    /\ screen = <<>>
    /\ task_result = "none"
    /\ exit_status = "none"

\* main returns: Ok, or the error of the call named by status
Exit(status) ==
    /\ main_pc' = "exited"
    /\ exit_status' = status

EnableRawMode ==
    /\ main_pc = "enable_raw_mode"
    /\ \/ /\ raw_mode' = TRUE
          /\ main_pc' = "enable_mouse"
          /\ UNCHANGED exit_status
       \/ /\ Exit("enable_raw_mode")
          /\ UNCHANGED raw_mode
    /\ UNCHANGED <<engine_vars, logs, task_pc, canceled, mouse_capture, cursor_hidden,
                   reader_vars, screen, task_result, cluster_size_th>>

EnableMouseCapture ==
    /\ main_pc = "enable_mouse"
    /\ \/ /\ mouse_capture' = TRUE
          /\ cursor_hidden' = TRUE
          /\ main_pc' = "spawn"
          /\ UNCHANGED exit_status
       \/ /\ Exit("enable_mouse")
          /\ UNCHANGED <<mouse_capture, cursor_hidden>>
    /\ UNCHANGED <<engine_vars, logs, task_pc, canceled, raw_mode,
                   reader_vars, screen, task_result, cluster_size_th>>

Spawn ==
    /\ main_pc = "spawn"
    /\ main_pc' = "read_event"
    /\ task_pc' = "new"
    /\ UNCHANGED <<engine_vars, logs, canceled, terminal_vars, reader_vars, screen,
                   task_result, exit_status, cluster_size_th>>

\* crossterm::event::read: ctrl-c, another event, or an error
ReadEvent ==
    /\ main_pc = "read_event"
    /\ \/ /\ main_pc' = "cancel"
          /\ UNCHANGED exit_status
       \/ UNCHANGED <<main_pc, exit_status>>
       \/ Exit("event_read")
    /\ UNCHANGED <<engine_vars, logs, task_pc, canceled, terminal_vars, reader_vars,
                   screen, task_result, cluster_size_th>>

Cancel ==
    /\ main_pc = "cancel"
    /\ canceled' = TRUE
    /\ main_pc' = "join"
    /\ UNCHANGED <<engine_vars, logs, task_pc, terminal_vars, reader_vars, screen,
                   task_result, exit_status, cluster_size_th>>

\* draining.await??
Join ==
    /\ main_pc = "join"
    /\ task_pc = "done"
    /\ IF task_result = "ok"
       THEN main_pc' = "disable_raw_mode" /\ UNCHANGED exit_status
       ELSE Exit("draining")
    /\ UNCHANGED <<engine_vars, logs, task_pc, canceled, terminal_vars, reader_vars,
                   screen, task_result, cluster_size_th>>

DisableRawMode ==
    /\ main_pc = "disable_raw_mode"
    /\ \/ /\ raw_mode' = FALSE
          /\ main_pc' = "disable_mouse"
          /\ UNCHANGED exit_status
       \/ /\ Exit("disable_raw_mode")
          /\ UNCHANGED raw_mode
    /\ UNCHANGED <<engine_vars, logs, task_pc, canceled, mouse_capture, cursor_hidden,
                   reader_vars, screen, task_result, cluster_size_th>>

DisableMouseCapture ==
    /\ main_pc = "disable_mouse"
    /\ \/ /\ mouse_capture' = FALSE
          /\ cursor_hidden' = FALSE
          /\ Exit("ok")
       \/ /\ Exit("disable_mouse")
          /\ UNCHANGED <<mouse_capture, cursor_hidden>>
    /\ UNCHANGED <<engine_vars, logs, task_pc, canceled, raw_mode,
                   reader_vars, screen, task_result, cluster_size_th>>

MainStep ==
    \/ EnableRawMode
    \/ EnableMouseCapture
    \/ Spawn
    \/ ReadEvent
    \/ Cancel
    \/ Join
    \/ DisableRawMode
    \/ DisableMouseCapture

\* the task runs as long as the process does
Alive == main_pc # "exited"

\* the task returns
Return(result) ==
    /\ task_pc' = "done"
    /\ task_result' = result

TaskNew ==
    /\ Alive
    /\ task_pc = "new"
    /\ IF ValidConfig(max_clusters, max_node_depth, sim_th, max_children)
       THEN task_pc' = "loop" /\ UNCHANGED task_result
       ELSE Return("new")
    /\ UNCHANGED <<engine_vars, logs, main_pc, canceled, terminal_vars, reader_vars,
                   screen, exit_status, cluster_size_th>>

\* loop_continues for a loop that never looks at the token
loop_continues_always == TRUE

\* the condition of the while loop
loop_continues == ~canceled

TaskLoop ==
    /\ Alive
    /\ task_pc = "loop"
    /\ IF loop_continues
       THEN task_pc' = "select" /\ ret' = "none" /\ UNCHANGED task_result
       ELSE Return("ok") /\ UNCHANGED ret
    /\ UNCHANGED <<engine_vars, logs, main_pc, canceled, terminal_vars, stdin_lines,
                   stdin_end, read_pos, trained, screen, exit_status, cluster_size_th>>

\* train_interval ticks: the timed read starts
TaskTrainTick ==
    /\ Alive
    /\ task_pc = "select"
    /\ task_pc' = "reading"
    /\ UNCHANGED <<engine_vars, logs, main_pc, canceled, terminal_vars, reader_vars,
                   screen, task_result, exit_status, cluster_size_th>>

\* after_elapsed for a read that is not cancellation safe: the line being read
\* when the timeout fires is lost
after_elapsed_loses_line(pos) == pos + 1

\* the reader's position after a timed read that elapsed: next_line is
\* cancellation safe, nothing is consumed
after_elapsed(pos) == pos

TaskReadElapsed ==
    /\ Alive
    /\ task_pc = "reading"
    /\ ret' = "elapsed"
    /\ read_pos' = after_elapsed(read_pos)
    /\ task_pc' = "loop"
    /\ UNCHANGED <<engine_vars, logs, main_pc, canceled, terminal_vars, stdin_lines,
                   stdin_end, trained, screen, task_result, exit_status, cluster_size_th>>

TaskReadLine ==
    /\ Alive
    /\ task_pc = "reading"
    /\ read_pos < Len(stdin_lines)
    /\ ret' = "line"
    /\ read_pos' = read_pos + 1
    /\ train(escaped(stdin_lines[read_pos + 1]))
    /\ trained' = Append(trained, escaped(stdin_lines[read_pos + 1]))
    /\ IF panicked'
       THEN Return("panic")
       ELSE task_pc' = "loop" /\ UNCHANGED task_result
    /\ UNCHANGED <<logs, main_pc, canceled, terminal_vars, stdin_lines, stdin_end,
                   screen, exit_status, cluster_size_th>>

\* end of stream or a read error: the loop breaks and the task returns Ok
TaskReadEnd ==
    /\ Alive
    /\ task_pc = "reading"
    /\ read_pos >= Len(stdin_lines)
    /\ stdin_end \in {"eof", "error"}
    /\ ret' = stdin_end
    /\ Return("ok")
    /\ UNCHANGED <<engine_vars, logs, main_pc, canceled, terminal_vars, stdin_lines,
                   stdin_end, read_pos, trained, screen, exit_status, cluster_size_th>>

Take(s, n) == SubSeq(s, 1, IF Len(s) < n THEN Len(s) ELSE n)

\* Shown without the filter on the size
Shown_unfiltered == Take(clusters, TerminalRows)

\* the clusters a rendering step prints, each on a row of its own
Shown ==
    Take(SelectSeq(clusters, LAMBDA cluster : cluster.size > cluster_size_th),
         TerminalRows)

\* render_interval ticks: the screen is redrawn, or a terminal call fails
\* before the screen is cleared or after some of the clusters are printed
TaskRender ==
    /\ Alive
    /\ task_pc = "select"
    /\ \/ /\ screen' = Shown
          /\ task_pc' = "loop"
          /\ UNCHANGED task_result
       \/ /\ screen' \in {screen} \cup {Take(Shown, n) : n \in 0..Len(Shown)}
          /\ Return("render")
    /\ UNCHANGED <<engine_vars, logs, main_pc, canceled, terminal_vars, reader_vars,
                   exit_status, cluster_size_th>>

TaskStep ==
    \/ TaskNew
    \/ TaskLoop
    \/ TaskTrainTick
    \/ TaskReadElapsed
    \/ TaskReadLine
    \/ TaskReadEnd
    \/ TaskRender

NextMain == MainStep \/ TaskStep

SpecMain == InitMain /\ [][NextMain]_vars

\* the runtime keeps polling the task, the intervals keep ticking and the timed
\* read returns within the retrieval timeout
SpecMainFair == SpecMain /\ WF_vars(TaskStep)

-----------------------------------------------------------------------------
(* Properties of the engine *)

RECURSIVE SumSizes(_)
SumSizes(cs) == IF cs = <<>> THEN 0 ELSE Head(cs).size + SumSizes(Tail(cs))

\* C1 as claimed: the sizes of the clusters clusters() returns add up to the
\* number of train calls made, whatever the configuration.
C1_SizeConservation == SumSizes(clusters) = n_train

\* C1 amended: as long as no cluster was evicted from the store (every cluster
\* ever created is still in it, which is always so for an unbounded store),
\* the sizes of the clusters clusters() returns add up to the number of train
\* calls made.
C1_SizeConservationUntilEviction ==
    Len(clusters) = Len(created) => SumSizes(clusters) = n_train

C1_Witness ==
    /\ n_train >= 3
    /\ Len(clusters) = Len(created)
    /\ Len(clusters) >= 2
    /\ \E i \in DOMAIN clusters : clusters[i].size >= 2

\* C2: a default engine trained on the seven lines of the example in their
\* order holds exactly three clusters: id 1 "connected to <*>" of size 3, id 2
\* "Hex number <*>" of size 2, id 3 "user <*> logged in" of size 2.
C2_ExampleClusters ==
    (logs = ExampleLogs /\ n_train = Len(logs)) =>
        /\ Len(clusters) = 3
        /\ {clusters[i] : i \in DOMAIN clusters} =
              {LogCluster(<<"connected", "to", param_str>>, 1, 3),
               LogCluster(<<"Hex", "number", param_str>>, 2, 2),
               LogCluster(<<"user", param_str, "logged", "in">>, 3, 2)}

C2_Witness == logs = ExampleLogs /\ n_train = Len(ExampleLogs)

\* C3 as claimed: no node of the prefix tree, the root with its token-count
\* buckets included, has more than max_children child keys.
C3_BoundedBranching ==
    \A node \in DOMAIN root : Cardinality(ChildKeys(root, node)) <= max_children

\* C3 amended: no node of the prefix tree other than the root has more than
\* max_children child keys (the root has one child for every token count seen).
C3_BoundedBranchingBelowRoot ==
    \A node \in DOMAIN root :
        node # <<>> => Cardinality(ChildKeys(root, node)) <= max_children

\* a full node turned a word that is neither numeric nor the marker into the
\* wildcard child
C3_Witness ==
    /\ last.kind = "create"
    /\ \E d \in 1..Len(last.insert_node) - 1 :
        LET node == SubSeq(last.insert_node, 1, d)
        IN  /\ Cardinality(ChildKeys(root, node)) = max_children
            /\ last.insert_node[d + 1] = param_str
            /\ last.tokens[d] # param_str
            /\ ~has_number(last.tokens[d])

LookedUp(lookups, id) == \E j \in DOMAIN lookups : lookups[j] = id

LastLookup(lookups, id) ==
    CHOOSE j \in DOMAIN lookups :
        lookups[j] = id /\ \A k \in DOMAIN lookups : k > j => lookups[k] # id

\* how recently a stored cluster was used once the lookups of a train call are
\* done: a cluster looked up is more recent than one that was not, and later
\* lookups are more recent than earlier ones
Recency(cache, lookups, id) ==
    IF LookedUp(lookups, id)
    THEN Len(cache) + LastLookup(lookups, id)
    ELSE Len(cache) + 1 - LruIndex(cache, id)

\* C4: a train call never fails and never returns a cluster the store had
\* lost; the cluster it writes back or creates becomes the most recent one and
\* the others stay ordered by recency, lookups included; and a call that
\* creates a cluster in a full bounded store removes exactly one cluster, the
\* least recently used one.
C4_EvictionConsistency ==
    [][n_train' = n_train + 1 =>
        LET old == id_to_cluster
            new == id_to_cluster'
            out == last'
            gone == Ids(old) \ Ids(new)
        IN  /\ ~panicked'
            /\ out.kind \in {"match", "create"}
            /\ out.kind = "match" =>
                  /\ out.cluster.cluster_id \in Ids(old)
                  /\ out.cluster.cluster_id \notin out.missed
            /\ new[1].cluster_id = out.cluster.cluster_id
            /\ \A i, j \in 2..Len(new) :
                  i < j => Recency(old, out.lookups, new[i].cluster_id)
                             > Recency(old, out.lookups, new[j].cluster_id)
            /\ (out.kind = "create" /\ max_clusters # Unbounded /\ Len(old) = max_clusters) =>
                  /\ Cardinality(gone) = 1
                  /\ Ids(new) = (Ids(old) \ gone) \cup {out.cluster.cluster_id}
                  /\ \A g \in gone : \A id \in Ids(old) :
                        Recency(old, out.lookups, g) <= Recency(old, out.lookups, id)]_vars

\* a search met the id of an evicted cluster in a leaf, skipped it, and the
\* call went on to create a cluster in the full store
C4_Witness ==
    /\ max_clusters # Unbounded
    /\ last.kind = "create"
    /\ Len(last.tokens) >= 1
    /\ last.missed # {}
    /\ Len(clusters) = max_clusters
    /\ Len(created) > max_clusters

\* C5: a position of a stored template that holds the wildcard marker holds it
\* after every train call that leaves the cluster in the store.
C5_WildcardStays ==
    [][\A i \in DOMAIN id_to_cluster :
         LET old == id_to_cluster[i]
             new == LruPeek(id_to_cluster', old.cluster_id)
         IN  LruContains(id_to_cluster', old.cluster_id) =>
                \A k \in DOMAIN old.log_template_tokens :
                    old.log_template_tokens[k] = param_str =>
                        /\ k \in DOMAIN new.log_template_tokens
                        /\ new.log_template_tokens[k] = param_str]_vars

\* a line was merged into a template that had the marker where the line has
\* another word
C5_Witness ==
    /\ last.kind = "match"
    /\ \E k \in DOMAIN last.before.log_template_tokens :
        /\ last.before.log_template_tokens[k] = param_str
        /\ last.tokens[k] # param_str
        /\ last.cluster.log_template_tokens[k] = param_str

\* levels of a node below its token-count bucket
Levels(node) == IF node = <<>> THEN 0 ELSE Len(node) - 1

\* C6: neither the search nor the insertion of a train call ends more than
\* max_node_depth levels below the token-count bucket, and no node of the tree
\* is more than max_node_depth edges below its bucket.
C6_BoundedDepth ==
    /\ Levels(last.search_node) <= max_node_depth
    /\ Levels(last.insert_node) <= max_node_depth
    /\ \A node \in DOMAIN root : Levels(node) <= max_node_depth

\* a line with more tokens than max_node_depth was inserted below its bucket
C6_Witness ==
    /\ last.kind = "create"
    /\ Len(last.tokens) > max_node_depth
    /\ Levels(last.insert_node) >= 1
    /\ Levels(last.insert_node) = max_node_depth - 1

\* C7: the k-th cluster ever created has id k, the ids in the store are
\* distinct, and every one of them is the id of a created cluster; so no id is
\* given twice, also after the cluster that had it was evicted.
C7_UniqueIncreasingIds ==
    /\ \A k \in DOMAIN created : created[k] = k
    /\ Cardinality(Ids(id_to_cluster)) = Len(id_to_cluster)
    /\ Ids(id_to_cluster) \subseteq 1..Len(created)

\* clusters were created after an eviction
C7_Witness ==
    /\ max_clusters # Unbounded
    /\ Len(created) > max_clusters + 1
    /\ last.kind = "create"

-----------------------------------------------------------------------------
(* Properties of the pipeline *)

\* C8: the lines passed to train are, in order and once each, the sanitized
\* first lines of standard input; the reader has consumed no line that was not
\* trained; and after a timed read that elapsed the task is back at the test
\* of the loop, which it leaves only because the token is cancelled.
C8_NoDropNoReorder ==
    /\ Len(trained) <= Len(stdin_lines)
    /\ \A i \in DOMAIN trained : trained[i] = escaped(stdin_lines[i])
    /\ read_pos = Len(trained)
    /\ n_train = Len(trained)
    /\ ret = "elapsed" =>
          \/ task_pc = "loop" /\ task_result = "none"
          \/ task_pc = "done" /\ task_result = "ok" /\ canceled

\* a timed read elapsed between two lines
C8_Witness ==
    /\ ret = "elapsed"
    /\ Len(trained) >= 1
    /\ read_pos < Len(stdin_lines)
    /\ trained[1] # stdin_lines[1]

Restored == ~raw_mode /\ ~mouse_capture /\ ~cursor_hidden

\* C9 as claimed: when main returns the error of the key event read or of the
\* spawned task (engine construction, rendering), the terminal is restored:
\* raw mode is off, mouse capture is off and the cursor is shown.
C9_RestoredOnError ==
    (main_pc = "exited" /\ exit_status \in {"event_read", "draining"}) => Restored

\* C10: once the token is cancelled the task starts no further iteration of
\* its loop and eventually returns, also when standard input stays silent;
\* and raw mode, mouse capture and the hidden cursor are given up only by a
\* main flow that has cancelled the token and joined the finished task.
C10_CooperativeShutdown ==
    /\ canceled ~> task_pc = "done"
    /\ [][(canceled /\ task_pc = "loop") => task_pc' \in {"loop", "done"}]_vars
    /\ [][((raw_mode /\ ~raw_mode') \/ (mouse_capture /\ ~mouse_capture')
             \/ (cursor_hidden /\ ~cursor_hidden'))
          => (canceled /\ task_pc = "done" /\ task_result = "ok"
              /\ main_pc \in {"disable_raw_mode", "disable_mouse"})]_vars

\* a shutdown with silent input: the task was cancelled during a timed read
\* that elapsed, returned, and the terminal was restored
C10_Witness ==
    /\ stdin_lines = <<>>
    /\ stdin_end = "idle"
    /\ ret = "elapsed"
    /\ canceled
    /\ task_pc = "done"
    /\ main_pc = "exited"
    /\ exit_status = "ok"
    /\ Restored

-----------------------------------------------------------------------------
(* Further properties of the engine *)

\* C11: under a valid configuration (max_children >= 1, max_node_depth >= 1,
\* a threshold in [0, 1], a bounded or an unbounded store) no train call
\* fails, whatever the lines, empty ones included: the first id of the
\* zero-token bucket is always there to index, and the walk of an insertion
\* never asks for a wildcard child that is absent.
C11_Infallible ==
    /\ ValidConfig(max_clusters, max_node_depth, sim_th, max_children)
    /\ ~panicked
    /\ last.kind # "panic"
    /\ contains_key(root, <<>>, to_string(0)) => Len(root[<<to_string(0)>>]) >= 1

\* an empty line has made the zero-token bucket, and a node with no slot left
\* for a plain word made the wildcard child and sent the word there
C11_Witness ==
    /\ contains_key(root, <<>>, to_string(0))
    /\ n_train >= 3
    /\ last.kind = "create"
    /\ Len(last.insert_node) >= 2
    /\ last.insert_node[2] = param_str
    /\ last.tokens[1] # param_str
    /\ ~has_number(last.tokens[1])
    /\ Cardinality(ChildKeys(root, SubSeq(last.insert_node, 1, 1))) = max_children

\* the clusters of the leaf a search reached that the store holds
Candidates(cache, lookups) ==
    {lookups[j] : j \in DOMAIN lookups} \cap Ids(cache)

\* the similarity fast_match gives a stored cluster for the tokens of a line
SimOf(cache, id, tokens) ==
    get_seq_distance(tokens, LruPeek(cache, id).log_template_tokens, FALSE).sim

\* the stored clusters of the leaf with the highest similarity to the tokens
Best(cache, lookups, tokens) ==
    {id \in Candidates(cache, lookups) :
        \A other \in Candidates(cache, lookups) :
            SimGE(SimOf(cache, id, tokens), SimOf(cache, other, tokens))}

\* the number of wildcard positions of a template
Wildcards(template) == Cardinality({k \in DOMAIN template : template[k] = param_str})

\* C13 as claimed: when a line of one token or more is matched, the matched
\* cluster is, of the stored clusters of the reached leaf that have the
\* highest similarity to the line, one whose template (as stored before the
\* call) has the most wildcard positions, wherever it stands in the leaf's
\* list.
C13_TieBreakByWildcards ==
    [][(n_train' = n_train + 1 /\ last'.kind = "match" /\ Len(last'.tokens) >= 1) =>
        LET best == Best(id_to_cluster, last'.lookups, last'.tokens)
        IN  /\ last'.before.cluster_id \in best
            /\ \A id \in best :
                  Wildcards(last'.before.log_template_tokens)
                    >= Wildcards(LruPeek(id_to_cluster, id).log_template_tokens)]_vars

\* the stored clusters made by empty lines
ZeroTokenClusters(cache) ==
    {cache[i].cluster_id : i \in {j \in DOMAIN cache : cache[j].log_template_tokens = <<>>}}

\* C14 as claimed: the id list of the bucket of the lines without tokens
\* holds exactly one cluster id, and a train call on an empty line made while
\* the store holds a zero-token cluster is absorbed by that cluster instead of
\* creating another.
C14_ZeroTokenBucket ==
    /\ [](contains_key(root, <<>>, to_string(0)) => Len(root[<<to_string(0)>>]) = 1)
    /\ [][(n_train' = n_train + 1 /\ last'.tokens = <<>>
             /\ ZeroTokenClusters(id_to_cluster) # {}) =>
            /\ last'.kind = "match"
            /\ last'.cluster.cluster_id \in ZeroTokenClusters(id_to_cluster)]_vars

\* the search of the tokens ends at a leaf of the tree
Reached(tree, tokens) ==
    /\ contains_key(tree, <<>>, to_string(Len(tokens)))
    /\ search_loop(tree, tokens, 1, <<to_string(Len(tokens))>>, 1).ok

\* the positions where the template and the line hold the same token
EqualAt(template, tokens) ==
    {k \in DOMAIN tokens : k \in DOMAIN template /\ template[k] = tokens[k]}

\* those of them where the token is not the wildcard marker
LiteralEqualAt(template, tokens) ==
    {k \in EqualAt(template, tokens) : tokens[k] # param_str}

DifferAt(seq1, seq2) == {k \in DOMAIN seq1 : seq1[k] # seq2[k]}

\* C15 as claimed: a train call on a line of n >= 1 tokens whose search
\* reaches a leaf matches if and only if a stored cluster of the leaf has
\* (positions where its template equals the line's token) / n >= sim_th, the
\* matched cluster has the highest such ratio, and otherwise a cluster of
\* size 1 is created.
C15_MatchByEqualPositions ==
    [][(n_train' = n_train + 1 /\ Len(last'.tokens) >= 1 /\ Reached(root, last'.tokens)) =>
        LET tokens == last'.tokens
            cands == Candidates(id_to_cluster, root[last'.search_node])
            ratio(id) ==
                Sim(Cardinality(EqualAt(LruPeek(id_to_cluster, id).log_template_tokens,
                                        tokens)),
                    Len(tokens))
        IN  /\ last'.kind = "match" <=> \E id \in cands : SimGE(ratio(id), sim_th)
            /\ last'.kind = "match" =>
                  /\ last'.before.cluster_id \in cands
                  /\ \A id \in cands : SimGE(ratio(last'.before.cluster_id), ratio(id))
            /\ last'.kind # "match" =>
                  /\ last'.kind = "create"
                  /\ last'.cluster.size = 1]_vars

\* C15 amended: a train call on a line of n >= 1 tokens whose search reaches a
\* leaf matches if and only if a stored cluster of the leaf has (positions
\* where its template equals the line's token and that token is not the
\* wildcard marker) / n >= sim_th; the matched cluster is a stored cluster of
\* the leaf with the highest such ratio and comes back one line larger;
\* otherwise a cluster of size 1 with a new id is created.  So under a
\* threshold of 0.99 two four-token lines that differ in one token make two
\* clusters.
C15_MatchByLiteralPositions ==
    /\ [][(n_train' = n_train + 1 /\ Len(last'.tokens) >= 1
             /\ Reached(root, last'.tokens)) =>
            LET tokens == last'.tokens
                cands == Candidates(id_to_cluster, root[last'.search_node])
                ratio(id) ==
                    Sim(Cardinality(LiteralEqualAt(
                            LruPeek(id_to_cluster, id).log_template_tokens, tokens)),
                        Len(tokens))
            IN  /\ last'.kind = "match" <=> \E id \in cands : SimGE(ratio(id), sim_th)
                /\ last'.kind = "match" =>
                      /\ last'.before.cluster_id \in cands
                      /\ \A id \in cands : SimGE(ratio(last'.before.cluster_id), ratio(id))
                      /\ last'.cluster.cluster_id = last'.before.cluster_id
                      /\ last'.cluster.size = last'.before.size + 1
                /\ last'.kind # "match" =>
                      /\ last'.kind = "create"
                      /\ last'.cluster.size = 1
                      /\ last'.cluster.cluster_id \notin Ids(id_to_cluster)]_vars
    /\ [][(sim_th = Sim(99, 100) /\ n_train = 1 /\ n_train' = 2
             /\ Len(last.tokens) = 4 /\ Len(last'.tokens) = 4
             /\ Cardinality(DifferAt(last.tokens, last'.tokens)) = 1) =>
            /\ last'.kind = "create"
            /\ created' = <<1, 2>>
            /\ max_clusters = Unbounded => Len(id_to_cluster') = 2]_vars

\* under 0.99 two four-token lines that differ in one token made two clusters
C15_Witness ==
    /\ sim_th = Sim(99, 100)
    /\ n_train = 2
    /\ Len(clusters) = 2
    /\ Len(clusters[1].log_template_tokens) = 4
    /\ Cardinality(DifferAt(clusters[1].log_template_tokens,
                            clusters[2].log_template_tokens)) = 1

\* C16: the template of a cluster is as long as the line that created it has
\* tokens, its length is the same after every train call that leaves the
\* cluster in the store, and a line merged into a cluster has as many tokens
\* as the template.
C16_TemplateLengthFixed ==
    [][/\ \A i \in DOMAIN id_to_cluster :
            LET old == id_to_cluster[i]
                new == LruPeek(id_to_cluster', old.cluster_id)
            IN  LruContains(id_to_cluster', old.cluster_id) =>
                    Len(new.log_template_tokens) = Len(old.log_template_tokens)
       /\ (n_train' = n_train + 1 /\ last'.kind = "create") =>
            /\ LruPeek(id_to_cluster', last'.cluster.cluster_id) = last'.cluster
            /\ Len(last'.cluster.log_template_tokens) = Len(last'.tokens)
       /\ (n_train' = n_train + 1 /\ last'.kind = "match") =>
            /\ LruPeek(id_to_cluster', last'.cluster.cluster_id) = last'.cluster
            /\ LruPeek(id_to_cluster, last'.cluster.cluster_id) = last'.before
            /\ Len(last'.tokens) = Len(last'.before.log_template_tokens)
            /\ Len(last'.tokens) = Len(last'.cluster.log_template_tokens)]_vars

\* a line was merged into a cluster where it differs from the template, while
\* the store holds a cluster of another length
C16_Witness ==
    /\ last.kind = "match"
    /\ Len(last.tokens) >= 2
    /\ \E k \in DOMAIN last.tokens :
          /\ last.before.log_template_tokens[k] # param_str
          /\ last.before.log_template_tokens[k] # last.tokens[k]
          /\ last.cluster.log_template_tokens[k] = param_str
    /\ \E i \in DOMAIN clusters :
          Len(clusters[i].log_template_tokens) # Len(last.tokens)

\* the places of the tree's id lists that hold the id
ListedAt(tree, id) ==
    {pl \in (DOMAIN tree) \X (1..MaxTrain) :
        pl[2] \in DOMAIN tree[pl[1]] /\ tree[pl[1]][pl[2]] = id}

\* C18: every cluster of the store is listed at exactly one place of exactly
\* one id list of the prefix tree (ids of evicted clusters may be listed too),
\* also after an insertion rebuilt the list of its leaf.
C18_StoredListedOnce ==
    /\ \A node \in DOMAIN root : Len(root[node]) <= MaxTrain
    /\ \A id \in Ids(id_to_cluster) : Cardinality(ListedAt(root, id)) = 1

\* an insertion rebuilt the list of a leaf that held the id of an evicted
\* cluster, and the list of another leaf still holds a stale id
C18_Witness ==
    /\ last.kind = "create"
    /\ Len(last.tokens) >= 1
    /\ last.missed # {}
    /\ \A id \in last.missed : ListedAt(root, id) = {}
    /\ root[last.insert_node] = <<last.cluster.cluster_id>>
    /\ \E node \in DOMAIN root : \E j \in DOMAIN root[node] :
          root[node][j] \notin Ids(id_to_cluster)

\* C19: a train call on a line of one token or more, none of them the
\* wildcard marker, made right after a train call on a line of the same
\* tokens creates no cluster: it matches the cluster the first call returned
\* and returns it with the same template and a size one greater; when the
\* first call created the cluster, the search of the second ends at the node
\* the insertion ended at.
C19_RepeatedTrainStable ==
    [][(/\ n_train >= 1
        /\ n_train' = n_train + 1
        /\ last.kind \in {"match", "create"}
        /\ last'.tokens = last.tokens
        /\ Len(last.tokens) >= 1
        /\ \A k \in DOMAIN last.tokens : last.tokens[k] # param_str) =>
            /\ last'.kind = "match"
            /\ created' = created
            /\ last'.before = last.cluster
            /\ last'.cluster.cluster_id = last.cluster.cluster_id
            /\ last'.cluster.size = last.cluster.size + 1
            /\ last'.cluster.log_template_tokens = last.cluster.log_template_tokens
            /\ last.kind = "create" => last'.search_node = last.insert_node]_vars

\* the call after the last repeated a line that had just made a cluster, in a
\* leaf below a wildcard child, while the tree lists the id of an evicted
\* cluster
C19_Witness ==
    /\ n_train = MaxTrain + 1
    /\ last.kind = "match"
    /\ last.before.size = 1
    /\ Len(last.tokens) >= 2
    /\ \E k \in DOMAIN last.search_node : last.search_node[k] = param_str
    /\ \E node \in DOMAIN root : \E j \in DOMAIN root[node] :
          root[node][j] \notin Ids(id_to_cluster)

-----------------------------------------------------------------------------
(* Further properties of the pipeline *)

\* a step of the rendering branch of the select: it ends at the loop test, or
\* at the return of the task when a terminal call failed
RenderStep == task_pc = "select" /\ task_pc' \in {"loop", "done"}

\* C12: a rendering step changes nothing of the engine (the prefix tree, the
\* stored clusters with their templates and sizes, their recency order, the
\* id counter, the configuration); what it prints is a prefix of the stored
\* clusters whose size is strictly greater than the threshold, in the order
\* of the store; so no cluster at or below the threshold is ever on the
\* screen, while such a cluster is still matched by the next line.
C12_RenderReadsOnly ==
    /\ [][RenderStep =>
            /\ UNCHANGED engine_vars
            /\ UNCHANGED <<reader_vars, cluster_size_th>>
            /\ \/ screen' = screen
               \/ \E n \in 0..TerminalRows :
                    screen' = Take(SelectSeq(clusters,
                                     LAMBDA cluster : cluster.size > cluster_size_th), n)]_vars
    /\ [](\A i \in DOMAIN screen : screen[i].size > cluster_size_th)

\* a cluster that the threshold hid absorbed the next line, and a rendering
\* step then printed it
C12_Witness ==
    /\ cluster_size_th >= 1
    /\ last.kind = "match"
    /\ last.before.size <= cluster_size_th
    /\ last.cluster.size > cluster_size_th
    /\ screen = <<last.cluster>>
    /\ task_pc = "loop"

\* C17 as claimed: once a terminal call of a rendering step has failed and the
\* task has returned its error, the main flow eventually leaves its wait for
\* a key event and proceeds to the shutdown, whether or not the user presses
\* the shutdown key.
C17_RenderErrorShutsDown ==
    (task_pc = "done" /\ task_result = "render") ~> (main_pc # "read_event")

\* C20 as claimed: once the timed read has met the end of standard input, and
\* unless the user asks for the shutdown (the main flow leaves its wait for a
\* key event), a rendering step eventually prints the clusters the engine
\* holds after the last train call: the screen comes to show the stored
\* clusters above the threshold that fit the terminal.
C20_FinalStateDisplayed ==
    (ret = "eof") ~> (main_pc # "read_event" \/ screen = Shown)

=============================================================================
